---- MODULE Spec2Model ----
(***************************************************************************)
(* Model of yoga/enums/YogaEnums.h: the ordinal-count extension point, the  *)
(* HasOrdinality predicate, bitCount() and the ordinals() range, in the     *)
(* primary (C++20 concepts) variant and in the APPLY_FIXES_FOR_CPP17 shim.  *)
(*                                                                         *)
(* An enumeration family is a record [isEnum, specialized, count, bits]:    *)
(* whether the type is an enumeration, whether ordinalCount<E> is           *)
(* specialised, the value the specialisation returns, and the width of the  *)
(* (unsigned) underlying type.  Values of EnumT are the integers            *)
(* 0 .. 2^bits - 1; a static_cast to EnumT reduces modulo 2^bits.           *)
(***************************************************************************)
EXTENDS Integers, Sequences, FiniteSets, TLC

VARIABLES variant, compiler, family, hasOrd, bitCountRes, it, pc, visited,
          stdWidth, constWidth, runWidth

vars == <<variant, compiler, family, hasOrd, bitCountRes, it, pc, visited,
          stdWidth, constWidth, runWidth>>

(* ------------------------------ bounds --------------------------------- *)
\* widest underlying type of the families that are iterated
MaxBits == 3
\* widest underlying type of the families whose bit count is computed
MaxWidth == 14
\* largest declared ordinal count whose bit count is computed
MaxCount == 10000

\* width of unsigned int, the argument type of __builtin_clz / _BitScanReverse
UIntBits == 32

Variants == {"primary", "shim"}
Compilers == {"gnuc", "msvc"}
Markers == {1, 2}

(* ------------------------------ arithmetic ------------------------------ *)
RECURSIVE Pow2(_)
Pow2(n) == IF n = 0 THEN 1 ELSE 2 * Pow2(n - 1)

Min(a, b) == IF a < b THEN a ELSE b

\* static_cast<std::underlying_type_t<EnumT>>(v) / static_cast<EnumT>(v)
CastToUnderlying(F, v) == v % Pow2(F.bits)

\* to_underlying(e): the enumerator's value in its underlying type
to_underlying(F, e) == CastToUnderlying(F, e)

(* --------------------- extension point and predicate -------------------- *)
IsEnumeration(F) == F.isEnum

\* whether ordinalCount<EnumT>() has a definition (a specialisation)
HasSpecialization(F) == F.isEnum /\ F.specialized

\* ordinalCount<EnumT>(), where it is specialised
ordinalCount(F) == F.count

HasOrdinalityGE(v, F) ==
    IF v = "primary"
    THEN IF ~IsEnumeration(F) THEN "false"
         ELSE IF ~HasSpecialization(F) THEN "ill_formed"
         ELSE IF ordinalCount(F) >= 0 THEN "true" ELSE "false"
    ELSE IF ~IsEnumeration(F) THEN "ill_formed"
         ELSE IF ~HasSpecialization(F) THEN "ill_formed"
         ELSE IF ordinalCount(F) >= 0 THEN "true" ELSE "false"

\* Outcome of evaluating HasOrdinality<EnumT>.
\* primary: the concept's atomic constraint ordinalCount<EnumT>() > 0 is not
\*   satisfied when substitution fails (EnumT is not an Enumeration) and is
\*   ill-formed when the expression is not a constant expression (the
\*   function template is declared but has no definition for EnumT).
\* shim: the variable template has no type when enable_if_t fails and its
\*   initialiser calls a deleted function when there is no specialisation.
HasOrdinality(v, F) ==
    IF v = "primary"
    THEN IF ~IsEnumeration(F) THEN "false"
         ELSE IF ~HasSpecialization(F) THEN "ill_formed"
         ELSE IF ordinalCount(F) > 0 THEN "true" ELSE "false"
    ELSE IF ~IsEnumeration(F) THEN "ill_formed"
         ELSE IF ~HasSpecialization(F) THEN "ill_formed"
         ELSE IF ordinalCount(F) > 0 THEN "true" ELSE "false"

(* ------------------------------ bit width ------------------------------- *)
\* std::countl_zero on a w-bit unsigned value
RECURSIVE CountlZero(_, _)
CountlZero(w, x) ==
    IF w = 0 THEN 0
    ELSE IF x >= Pow2(w - 1) THEN 0
    ELSE 1 + CountlZero(w - 1, x)

\* std::bit_width(x) for a w-bit unsigned x: digits - countl_zero(x)
StdBitWidth(w, x) == w - CountlZero(w, x)

\* the shift-and-count loop:  while (x) { width++; x >>= 1; }
RECURSIVE ShiftCountFromOne(_, _)
ShiftCountFromOne(x, width) ==
    IF x <= 1 THEN width ELSE ShiftCountFromOne(x \div 2, width + 1)

RECURSIVE ShiftCount(_, _)
ShiftCount(x, width) ==
    IF x = 0 THEN width ELSE ShiftCount(x \div 2, width + 1)

\* x >> k
RECURSIVE ShiftRight(_, _)
ShiftRight(x, k) == IF k = 0 \/ x = 0 THEN x ELSE ShiftRight(x \div 2, k - 1)

\* _BitScanReverse(&index, x): index of the most significant set bit
BitScanReverse(x) == CHOOSE k \in 0 .. (UIntBits - 1) : ShiftRight(x, k) = 1

\* __builtin_clz(x): number of leading zero bits of the unsigned int x
BuiltinClz(x) ==
    Cardinality({k \in 0 .. (UIntBits - 1) : ShiftRight(x, k) = 0})

\* cpp17_bit_width(x); ctx is "constant" when the call is constant-evaluated
cpp17_bit_width(cc, ctx, x) ==
    IF x = 0 THEN 0
    ELSE IF cc = "msvc"
         THEN IF ctx = "constant" THEN ShiftCount(x, 0)
              ELSE BitScanReverse(x) + 1
         ELSE IF ctx = "constant" THEN ShiftCount(x, 0)
              ELSE IF x = 0 THEN 0 ELSE BuiltinClz(x)

bitCountNoMinusOne(F) ==
    StdBitWidth(F.bits, CastToUnderlying(F, ordinalCount(F)))

\* primary bitCount<EnumT>()
bitCount(F) ==
    StdBitWidth(F.bits, CastToUnderlying(F, ordinalCount(F) - 1))

\* shim bitCount<EnumT>()
bitCountShim(cc, ctx, F) ==
    cpp17_bit_width(cc, ctx, CastToUnderlying(F, ordinalCount(F) - 1))

(* ------------------------------ ordinals() ------------------------------ *)
\* Iterator{}: EnumT e{}
IteratorBegin == [e |-> 0]

\* Range::end(): Iterator{static_cast<EnumT>(ordinalCount<EnumT>())}
IteratorEnd(F) == [e |-> CastToUnderlying(F, ordinalCount(F))]

\* Iterator::operator*
IteratorDeref(m) == m.e

IteratorIncrementByTwo(F, m) ==
    [m EXCEPT !.e = CastToUnderlying(F, to_underlying(F, m.e) + 2)]

\* Iterator::operator++
IteratorIncrement(F, m) ==
    [m EXCEPT !.e = CastToUnderlying(F, to_underlying(F, m.e) + 1)]

AdvanceShared(F, ms, i) ==
    [j \in DOMAIN ms |-> IteratorIncrement(F, ms[j])]

\* ++it on marker i of the markers ms: e is a member of that marker alone
AdvanceMarker(F, ms, i) == [ms EXCEPT ![i] = IteratorIncrement(F, ms[i])]

\* primary: bool operator==(const Iterator&) const = default  (memberwise)
IteratorEqPrimary(a, b) == \A f \in DOMAIN a : a[f] = b[f]
\* primary: bool operator!=(const Iterator&) const = default  (!(a == b))
IteratorNePrimary(a, b) == ~IteratorEqPrimary(a, b)

\* shim: return e == other.e
IteratorEqShim(a, b) == a.e = b.e
IteratorNeShimLess(a, b) == a.e < b.e
\* shim: return e != other.e
IteratorNeShim(a, b) == a.e # b.e

IteratorEq(v, a, b) ==
    IF v = "primary" THEN IteratorEqPrimary(a, b) ELSE IteratorEqShim(a, b)
IteratorNe(v, a, b) ==
    IF v = "primary" THEN IteratorNePrimary(a, b) ELSE IteratorNeShim(a, b)

(* --------------------- constraints on the templates --------------------- *)
\* template <HasOrdinality EnumT> / enable_if<HasOrdinality<EnumT>, int32_t>
BitCountInstantiable(v, F) == HasOrdinality(v, F) = "true"

\* primary: template <HasOrdinality EnumT>
\* shim:    typename = std::enable_if_t<IsEnumeration<EnumT>>, and the body
\*          of Range::end() calls ordinalCount<EnumT>(), deleted unless
\*          specialised
OrdinalsInstantiable(v, F) ==
    IF v = "primary" THEN HasOrdinality(v, F) = "true"
    ELSE IsEnumeration(F) /\ HasSpecialization(F)

(* ------------------------------ families -------------------------------- *)
NonEnum == [isEnum |-> FALSE, specialized |-> FALSE, count |-> 0, bits |-> 1]

Unspecialized(w) ==
    [isEnum |-> TRUE, specialized |-> FALSE, count |-> 0, bits |-> w]

Specialized(w, n) ==
    [isEnum |-> TRUE, specialized |-> TRUE, count |-> n, bits |-> w]

\* a sequential family holds the members 0 .. count-1, all of them values of
\* the underlying type: count <= 2^bits; a specialisation may also return a
\* non-positive value
Families ==
    {NonEnum}
    \cup {Unspecialized(w) : w \in 1 .. MaxBits}
    \cup UNION {{Specialized(w, n) : n \in -1 .. Pow2(w)} : w \in 1 .. MaxBits}

BitFamilies ==
    UNION {{Specialized(w, n) : n \in 1 .. Min(Pow2(w), MaxCount)} :
              w \in 1 .. MaxWidth}

(* ------------------------------ actions --------------------------------- *)
Init ==
    /\ variant \in Variants
    /\ compiler = "gnuc"
    /\ family \in Families
    /\ hasOrd = "unevaluated"
    /\ bitCountRes = [status |-> "uninstantiated", value |-> 0]
    /\ it = <<>>
    /\ pc = [i \in Markers |-> "idle"]
    /\ visited = [i \in Markers |-> <<>>]
    /\ stdWidth = <<>>
    /\ constWidth = <<>>
    /\ runWidth = <<>>

\* a use of HasOrdinality<EnumT> (e.g. in a static_assert)
EvalHasOrdinality ==
    /\ hasOrd = "unevaluated"
    /\ hasOrd' = HasOrdinality(variant, family)
    /\ UNCHANGED <<variant, compiler, family, bitCountRes, it, pc, visited,
                   stdWidth, constWidth, runWidth>>

\* a use of bitCount<EnumT>() in a constant expression
CallBitCount ==
    /\ bitCountRes.status = "uninstantiated"
    /\ bitCountRes' =
          IF ~BitCountInstantiable(variant, family)
          THEN [status |-> "rejected", value |-> 0]
          ELSE [status |-> "ok",
                value |-> IF variant = "primary" THEN bitCount(family)
                          ELSE bitCountShim(compiler, "constant", family)]
    /\ UNCHANGED <<variant, compiler, family, hasOrd, it, pc, visited,
                   stdWidth, constWidth, runWidth>>

\* for (auto e : ordinals<EnumT>()): the call of ordinals() and of begin();
\* a loop may be started again at any time
CallOrdinals(i) ==
    /\ pc[i] # "rejected"
    /\ IF OrdinalsInstantiable(variant, family)
       THEN /\ it' = [j \in DOMAIN it \cup {i} |->
                       IF j = i THEN IteratorBegin ELSE it[j]]
            /\ pc' = [pc EXCEPT ![i] = "test"]
            /\ visited' = [visited EXCEPT ![i] = <<>>]
       ELSE /\ pc[i] = "idle"
            /\ pc' = [pc EXCEPT ![i] = "rejected"]
            /\ UNCHANGED <<it, visited>>
    /\ UNCHANGED <<variant, compiler, family, hasOrd, bitCountRes,
                   stdWidth, constWidth, runWidth>>

\* the loop condition  it != range.end()
LoopTest(i) ==
    /\ pc[i] = "test"
    /\ pc' = [pc EXCEPT ![i] =
                IF IteratorNe(variant, it[i], IteratorEnd(family))
                THEN "body" ELSE "done"]
    /\ UNCHANGED <<variant, compiler, family, hasOrd, bitCountRes, it,
                   visited, stdWidth, constWidth, runWidth>>

\* the loop variable is initialised with *it
LoopDeref(i) ==
    /\ pc[i] = "body"
    /\ visited' = [visited EXCEPT ![i] = Append(@, IteratorDeref(it[i]))]
    /\ pc' = [pc EXCEPT ![i] = "incr"]
    /\ UNCHANGED <<variant, compiler, family, hasOrd, bitCountRes, it,
                   stdWidth, constWidth, runWidth>>

\* ++it
LoopAdvance(i) ==
    /\ pc[i] = "incr"
    /\ it' = AdvanceMarker(family, it, i)
    /\ pc' = [pc EXCEPT ![i] = "test"]
    /\ UNCHANGED <<variant, compiler, family, hasOrd, bitCountRes,
                   visited, stdWidth, constWidth, runWidth>>

Next ==
    \/ EvalHasOrdinality
    \/ CallBitCount
    \/ \E i \in Markers : CallOrdinals(i)
    \/ \E i \in Markers : LoopTest(i)
    \/ \E i \in Markers : LoopDeref(i)
    \/ \E i \in Markers : LoopAdvance(i)

Spec == Init /\ [][Next]_vars

(* ------------- bit width of every declared count, three ways ------------ *)
InitBits ==
    /\ variant = "primary"
    /\ compiler \in Compilers
    /\ family \in BitFamilies
    /\ hasOrd = "unevaluated"
    /\ bitCountRes = [status |-> "uninstantiated", value |-> 0]
    /\ it = <<>>
    /\ pc = [i \in Markers |-> "idle"]
    /\ visited = [i \in Markers |-> <<>>]
    /\ stdWidth = <<>>
    /\ constWidth = <<>>
    /\ runWidth = <<>>

\* primary build: bitCount<EnumT>()
EvalPrimary ==
    /\ stdWidth = <<>>
    /\ stdWidth' = <<bitCount(family)>>
    /\ UNCHANGED <<variant, compiler, family, hasOrd, bitCountRes, it, pc,
                   visited, constWidth, runWidth>>

\* shim build: bitCount<EnumT>() in a constant expression
EvalShimConstant ==
    /\ stdWidth # <<>>
    /\ constWidth = <<>>
    /\ constWidth' = <<bitCountShim(compiler, "constant", family)>>
    /\ UNCHANGED <<variant, compiler, family, hasOrd, bitCountRes, it, pc,
                   visited, stdWidth, runWidth>>

\* shim build: bitCount<EnumT>() called at run time
EvalShimRuntime ==
    /\ constWidth # <<>>
    /\ runWidth = <<>>
    /\ runWidth' = <<bitCountShim(compiler, "runtime", family)>>
    /\ UNCHANGED <<variant, compiler, family, hasOrd, bitCountRes, it, pc,
                   visited, stdWidth, constWidth>>

NextBits == EvalPrimary \/ EvalShimConstant \/ EvalShimRuntime

SpecBits == InitBits /\ [][NextBits]_vars

(* ------------------------------ properties ------------------------------ *)
Specialised == HasSpecialization(family)
N == family.count

\* <<0, 1, ..., n-1>>
Ascending(n) == [k \in 1 .. n |-> k - 1]

IsPrefix(s, t) == Len(s) <= Len(t) /\ \A k \in 1 .. Len(s) : s[k] = t[k]

CeilLog2(n) == CHOOSE k \in 0 .. 30 : Pow2(k) >= n /\ (k = 0 \/ Pow2(k - 1) < n)
FloorLog2(n) == CHOOSE k \in 0 .. 29 : Pow2(k) <= n /\ n < Pow2(k + 1)

\* C1: for every declared count N in 1..10000 the primary bitCount() returns
\* ceil(log2(N)), which is 0 when N-1 = 0 and floor(log2(N-1))+1 otherwise;
\* N=1 gives 0, 2 gives 1, 3 gives 2, 4 gives 2, 5 gives 3, 256 gives 8 and
\* 257 gives 9.
C1_BitCountIsCeilLog2 ==
    stdWidth # <<>> =>
        /\ stdWidth[1] = CeilLog2(N)
        /\ stdWidth[1] = (IF N - 1 = 0 THEN 0 ELSE FloorLog2(N - 1) + 1)
        /\ N = 1 => stdWidth[1] = 0
        /\ N = 2 => stdWidth[1] = 1
        /\ N = 3 => stdWidth[1] = 2
        /\ N = 4 => stdWidth[1] = 2
        /\ N = 5 => stdWidth[1] = 3
        /\ N = 256 => stdWidth[1] = 8
        /\ N = 257 => stdWidth[1] = 9

C1_Witness == stdWidth = <<9>> /\ N = 257 /\ constWidth = <<>>

\* C2: for a family with declared count N >= 1, the loop from begin() to end()
\* visits exactly the N ordinals 0, 1, ..., N-1 in ascending order and stops.
C2_LoopVisitsEveryOrdinal ==
    \A i \in Markers :
        (Specialised /\ N >= 1 /\ pc[i] = "done") => visited[i] = Ascending(N)

\* C3: in the shim, the run-time branch of cpp17_bit_width returns the value
\* the constant-evaluated branch returns, for every non-negative input.
C3_BranchesAgree ==
    (constWidth # <<>> /\ runWidth # <<>>) => runWidth = constWidth

\* C4: for every declared count the shim's constant-evaluated bitCount()
\* returns the value the primary bitCount() returns.
C4_ShimMatchesPrimary ==
    (stdWidth # <<>> /\ constWidth # <<>>) => constWidth = stdWidth

C4_Witness == constWidth = <<9>> /\ stdWidth = <<9>> /\ N = 257

\* C5: in both variants, for a family whose ordinalCount specialisation
\* returns a non-positive value neither bitCount() nor ordinals() can be
\* instantiated: no bit count is computed and no range or marker exists.
C5_NonPositiveCountRejected ==
    (Specialised /\ N <= 0) =>
        /\ bitCountRes.status # "ok"
        /\ DOMAIN it = {}
        /\ \A i \in Markers : pc[i] \in {"idle", "rejected"}

C7_Restartable ==
    /\ [](\A i, j \in Markers :
            /\ IsPrefix(visited[i], visited[j]) \/ IsPrefix(visited[j], visited[i])
            /\ (pc[i] = "done" /\ pc[j] = "done") => visited[i] = visited[j])
    /\ [][\A i \in Markers :
            /\ (pc'[i] = "test" /\ visited'[i] = <<>>) => it'[i] = IteratorBegin
            /\ (pc'[i] # pc[i]) =>
                  \A j \in Markers \ {i} :
                      /\ pc'[j] = pc[j]
                      /\ visited'[j] = visited[j]
                      /\ j \in DOMAIN it => (j \in DOMAIN it' /\ it'[j] = it[j])
                      /\ j \notin DOMAIN it => j \notin DOMAIN it']_vars

C7_Witness ==
    /\ DOMAIN it = Markers
    /\ it[1].e = 2 /\ visited[1] = <<0, 1>>
    /\ it[2].e = 0 /\ visited[2] = <<>> /\ pc[2] = "test"

\* C8: while a family with count N >= 1 is iterated, the marker starts at 0,
\* changes only by +1, stays within 0..N, and is dereferenced and advanced
\* only while its ordinal is in 0..N-1.
C8_MarkerWithinBounds ==
    /\ []((Specialised /\ N >= 1) =>
            \A i \in DOMAIN it :
                /\ it[i].e \in 0 .. N
                /\ pc[i] \in {"body", "incr"} => it[i].e \in 0 .. (N - 1)
                /\ \A k \in 1 .. Len(visited[i]) : visited[i][k] \in 0 .. (N - 1))
    /\ [][(Specialised /\ N >= 1) =>
            \A i \in DOMAIN it' :
                IF i \in DOMAIN it /\ ~(pc'[i] = "test" /\ visited'[i] = <<>>)
                THEN \/ it'[i].e = it[i].e
                     \/ pc[i] = "incr" /\ it'[i].e = it[i].e + 1
                ELSE it'[i].e = 0]_vars

C8_Witness ==
    \E i \in DOMAIN it :
        /\ Specialised /\ N = 5
        /\ pc[i] = "done" /\ it[i].e = N /\ Len(visited[i]) = N

\* the markers of the state: the loops' markers and the range's begin and end
MarkersOfState ==
    {it[i] : i \in DOMAIN it}
    \cup (IF Specialised THEN {IteratorBegin, IteratorEnd(family)} ELSE {})

\* C9: in both variants two markers are equal iff their ordinals are equal,
\* operator!= is the negation of operator==, and the primary's defaulted
\* comparisons agree with the shim's hand-written ones.
C9_MarkerEquality ==
    \A a, b \in MarkersOfState :
        /\ IteratorEqPrimary(a, b) <=> (a.e = b.e)
        /\ IteratorEqShim(a, b) <=> (a.e = b.e)
        /\ IteratorNePrimary(a, b) <=> ~IteratorEqPrimary(a, b)
        /\ IteratorNeShim(a, b) <=> ~IteratorEqShim(a, b)
        /\ IteratorEqPrimary(a, b) <=> IteratorEqShim(a, b)
        /\ IteratorNePrimary(a, b) <=> IteratorNeShim(a, b)

C9_Witness ==
    /\ DOMAIN it = Markers
    /\ it[1].e > it[2].e
    /\ it[2] # IteratorEnd(family)

\* C10: for a w-bit unsigned underlying type and every count N with
\* 1 <= N <= 2^w, the end marker differs from the begin marker, the loop
\* yields exactly the N ordinals 0..N-1, and bitCount() is the bit width of
\* N-1 with no truncation.
C10_FullWidthFamily ==
    (Specialised /\ N >= 1 /\ N <= Pow2(family.bits)) =>
        /\ \A i \in DOMAIN it :
              /\ IteratorEnd(family) # IteratorBegin
              /\ pc[i] = "done" => visited[i] = Ascending(N)
        /\ bitCountRes.status = "ok" => bitCountRes.value = CeilLog2(N)

====
